---- MODULE Spec2Model ----
(***************************************************************************)
(* A model of the proof-of-work ledger of src/main.rs: Transaction,        *)
(* BlockHeader, Block, Miner and Blockchain.                               *)
(*                                                                         *)
(* Strings (transaction ids, addresses) are represented by small natural   *)
(* codes.  Digests are sequences of HashLen bytes.  SHA-256 itself is      *)
(* represented by a fixed deterministic compression function (Sha256       *)
(* below): what the program relies on is that it is a function of the      *)
(* serialized bytes and that its output looks arbitrary, not its values.   *)
(***************************************************************************)
EXTENDS Integers, Sequences, FiniteSets, TLC

(***************************************************************************)
(* Bounds of the model.                                                    *)
(***************************************************************************)
\* Largest clock reading (seconds) the model explores.
MaxTime == 1
\* Largest difficulty handed to Blockchain::new.
MaxDifficulty == 2
\* Largest number of add_transaction calls in one run.
MaxTx == 2
\* Largest actual_time and target_time handed to adjust_difficulty.
MaxAdjustTime == 5
\* The largest value of a difficulty_target (u32::MAX in the program, scaled
\* down; it stays above the number of bits of a digest).
DifficultyMax == 258
\* The largest value of a balance (u64::MAX in the program, scaled down so
\* that a sum of amounts can exceed it).
BalanceMax == 63
\* The largest value of the nonce counter (u32::MAX in the program, scaled
\* down so that a search can exhaust a timestamp epoch).
NonceMax == 3
\* The longest transaction list whose Merkle root is computed on its own.
MaxLeaves == 5

(***************************************************************************)
(* Program constants.                                                      *)
(***************************************************************************)
\* [u8; 32]: the width of a digest in bytes.
HashLen == 32
\* genesis_block(): Block::new(1, [0; 32], vec![genesis_transaction], 8, 0).
GenesisVersion == 1
GenesisDifficulty == 8
GenesisHeight == 0
\* The id "genesis" and the address "1A1zP1eP5QGefi2DMPTfTL5SLmv7DivfNa".
GenesisId == 0
GenesisAddress == 1
\* 50_00000000 satoshis, counted in units of 10^8 satoshis.
GenesisAmount == 50
\* mine_pending_transactions passes version 1 to mine_block.
MinedVersion == 1

ZeroHash == [i \in 1..HashLen |-> 0]

(***************************************************************************)
(* Transaction                                                             *)
(***************************************************************************)
Transaction_new(id, inputs, outputs, amount) ==
    [id |-> id, inputs |-> inputs, outputs |-> outputs, amount |-> amount]

\* serde_json::to_string(self) of a Transaction: the fields in declaration
\* order, each variable-length list preceded by its length (injective, as
\* the JSON text is).
SerializeTransaction(tx) ==
    <<tx.id, Len(tx.inputs)>> \o tx.inputs
        \o <<Len(tx.outputs)>> \o tx.outputs \o <<tx.amount>>

\* The stand-in for SHA-256.  Absorb folds the bytes s[lo..hi] into a 15-bit
\* state (order-sensitive, by halves); Squeeze expands a state into the
\* bytes lo..hi of the digest.
RECURSIVE Absorb(_, _, _)
Absorb(s, lo, hi) ==
    IF lo > hi THEN 17
    ELSE IF lo = hi THEN (s[lo] * 7 + lo * 13 + 1) % 32749
    ELSE LET mid == (lo + hi) \div 2
         IN  (Absorb(s, lo, mid) * 127 + Absorb(s, mid + 1, hi) * 31 + 5) % 32749

RECURSIVE Squeeze(_, _, _)
Squeeze(h, lo, hi) ==
    IF lo = hi THEN <<((h + lo) * (h + 3 * lo) + (h \div (lo + 1))) % 256>>
    ELSE LET mid == (lo + hi) \div 2
         IN  Squeeze(h, lo, mid) \o Squeeze(h, mid + 1, hi)

Sha256(s) == Squeeze(Absorb(s, 1, Len(s)), 1, HashLen)

Transaction_hash(tx) == Sha256(SerializeTransaction(tx))

(***************************************************************************)
(* BlockHeader                                                             *)
(***************************************************************************)
\* Mutant of BlockHeader_new: the nonce starts at 1.
BlockHeader_new_NonceOne(version, previous_hash, merkle_root, difficulty, now) ==
    [version |-> version,
     previous_hash |-> previous_hash,
     merkle_root |-> merkle_root,
     timestamp |-> now,
     difficulty_target |-> difficulty,
     nonce |-> 1]

\* BlockHeader::new: the timestamp is the clock reading, the nonce is 0.
BlockHeader_new(version, previous_hash, merkle_root, difficulty, now) ==
    [version |-> version,
     previous_hash |-> previous_hash,
     merkle_root |-> merkle_root,
     timestamp |-> now,
     difficulty_target |-> difficulty,
     nonce |-> 0]

\* serde_json::to_string(self) of a BlockHeader.
SerializeHeader(hd) ==
    <<hd.version>> \o hd.previous_hash \o hd.merkle_root
        \o <<hd.timestamp, hd.difficulty_target, hd.nonce>>

\* BlockHeader::hash: SHA-256 of SHA-256 of the serialized header.
BlockHeader_hash(hd) == Sha256(Sha256(SerializeHeader(hd)))

(***************************************************************************)
(* Block                                                                   *)
(***************************************************************************)
\* Mutant of MerkleLevel: a lone last element goes up as it is.
RECURSIVE MerkleLevel_CarryLast(_, _)
MerkleLevel_CarryLast(hashes, i) ==
    IF i > Len(hashes) THEN <<>>
    ELSE IF i = Len(hashes)
         THEN <<hashes[i]>>
         ELSE <<Sha256(hashes[i] \o hashes[i + 1])>>
                  \o MerkleLevel_CarryLast(hashes, i + 2)

\* One level of the tree: hashes.chunks(2), a lone last element paired with
\* itself.
RECURSIVE MerkleLevel(_, _)
MerkleLevel(hashes, i) ==
    IF i > Len(hashes) THEN <<>>
    ELSE IF i = Len(hashes)
         THEN <<Sha256(hashes[i] \o hashes[i])>>
         ELSE <<Sha256(hashes[i] \o hashes[i + 1])>> \o MerkleLevel(hashes, i + 2)

RECURSIVE MerkleReduce(_)
MerkleReduce(hashes) ==
    IF Len(hashes) > 1 THEN MerkleReduce(MerkleLevel(hashes, 1)) ELSE hashes[1]

calculate_merkle_root(transactions) ==
    IF transactions = <<>> THEN ZeroHash
    ELSE MerkleReduce([i \in 1..Len(transactions) |-> Transaction_hash(transactions[i])])

Block_new(version, previous_hash, transactions, difficulty, height, now) ==
    [header |-> BlockHeader_new(version, previous_hash,
                                calculate_merkle_root(transactions),
                                difficulty, now),
     transactions |-> transactions,
     height |-> height]

Block_hash(b) == BlockHeader_hash(b.header)

(***************************************************************************)
(* Miner: the difficulty predicate                                         *)
(***************************************************************************)
\* u8::leading_zeros of a non-zero byte.
RECURSIVE ByteLeadingZeros(_)
ByteLeadingZeros(b) == IF b >= 128 THEN 0 ELSE 1 + ByteLeadingZeros(2 * b)

\* Mutant of CountFrom: the count goes on after the first non-zero byte.
RECURSIVE CountFrom_NoBreak(_, _)
CountFrom_NoBreak(hash, i) ==
    IF i > Len(hash) THEN 0
    ELSE IF hash[i] = 0 THEN 8 + CountFrom_NoBreak(hash, i + 1)
         ELSE ByteLeadingZeros(hash[i]) + CountFrom_NoBreak(hash, i + 1)

\* The loop over hash.iter(): 8 for a zero byte, and at the first non-zero
\* byte its leading_zeros and break.
RECURSIVE CountFrom(_, _)
CountFrom(hash, i) ==
    IF i > Len(hash) THEN 0
    ELSE IF hash[i] = 0 THEN 8 + CountFrom(hash, i + 1)
         ELSE ByteLeadingZeros(hash[i])

count_leading_zero_bits(hash) == CountFrom(hash, 1)

\* Mutant of meets_difficulty_target: the count must exceed the target.
meets_difficulty_target_Strict(difficulty, hash) ==
    count_leading_zero_bits(hash) > difficulty

\* leading_zeros >= self.difficulty_target
meets_difficulty_target(difficulty, hash) ==
    count_leading_zero_bits(hash) >= difficulty

\* Mutant of validate_block: the digest must exceed the target.
validate_block_Strict(difficulty, b) ==
    count_leading_zero_bits(Block_hash(b)) > difficulty

validate_block(difficulty, b) == meets_difficulty_target(difficulty, Block_hash(b))


\* Mutant of NextCandidate: at the largest nonce the counter restarts at 0
\* under the old timestamp.
NextCandidate_NoRefresh(b, now) ==
    IF b.header.nonce = NonceMax
    THEN [b EXCEPT !.header.nonce = 0]
    ELSE [b EXCEPT !.header.nonce = b.header.nonce + 1]

\* Mutant of NextCandidate: the timestamp refresh rebuilds the header and
\* so takes the version after the current one.
NextCandidate_BumpsVersion(b, now) ==
    IF b.header.nonce = NonceMax
    THEN [b EXCEPT !.header.timestamp = now, !.header.nonce = 0,
                   !.header.version = b.header.version + 1]
    ELSE [b EXCEPT !.header.nonce = b.header.nonce + 1]

\* The step of the search loop after a failing digest: at the largest nonce
\* refresh the timestamp and restart at 0, otherwise add 1 to the nonce.
NextCandidate(b, now) ==
    IF b.header.nonce = NonceMax
    THEN [b EXCEPT !.header.timestamp = now, !.header.nonce = 0]
    ELSE [b EXCEPT !.header.nonce = b.header.nonce + 1]

\* actual_time as f64 / target_time as f64 > 2.0.  Both conversions are
\* exact below 2^53; x / 0.0 is +inf for x > 0 and 0.0 / 0.0 is NaN, which
\* compares false.
RatioAboveTwo(actual_time, target_time) ==
    IF target_time = 0 THEN actual_time > 0 ELSE actual_time > 2 * target_time

\* actual_time as f64 / target_time as f64 < 0.5
RatioBelowHalf(actual_time, target_time) ==
    target_time # 0 /\ 2 * actual_time < target_time

\* Mutant of adjust_difficulty: the decrease is floored at 0.
adjust_difficulty_FloorZero(difficulty, actual_time, target_time) ==
    IF RatioAboveTwo(actual_time, target_time)
    THEN IF difficulty > 0 THEN difficulty - 1 ELSE difficulty
    ELSE IF RatioBelowHalf(actual_time, target_time)
         THEN difficulty + 1
         ELSE difficulty

\* Miner::adjust_difficulty: the new difficulty_target, before the width of
\* a u32 is applied to it.
adjust_difficulty(difficulty, actual_time, target_time) ==
    IF RatioAboveTwo(actual_time, target_time)
    THEN IF difficulty > 1 THEN difficulty - 1 ELSE difficulty
    ELSE IF RatioBelowHalf(actual_time, target_time)
         THEN difficulty + 1
         ELSE difficulty

(***************************************************************************)
(* Blockchain                                                              *)
(***************************************************************************)
genesis_block(now) ==
    Block_new(GenesisVersion, ZeroHash,
              <<Transaction_new(GenesisId, <<>>, <<GenesisAddress>>, GenesisAmount)>>,
              GenesisDifficulty, GenesisHeight, now)

\* validate_chain: the loop over i in 1..len (0-based), returning false at
\* the first block that fails the miner's predicate or the linkage.
RECURSIVE ValidateFrom(_, _, _)
ValidateFrom(chain, difficulty, i) ==
    IF i > Len(chain) THEN TRUE
    ELSE IF ~validate_block(difficulty, chain[i]) THEN FALSE
    ELSE IF chain[i].header.previous_hash # Block_hash(chain[i - 1]) THEN FALSE
    ELSE ValidateFrom(chain, difficulty, i + 1)

\* Mutant of validate_chain: the linkage is not compared.
validate_chain_NoLinkage(chain, difficulty) ==
    \A i \in 2..Len(chain) : validate_block(difficulty, chain[i])

validate_chain(chain, difficulty) == ValidateFrom(chain, difficulty, 2)

\* Mutant of QueueIsEmpty: the early return is never taken.
QueueIsEmpty_Never(queue) == FALSE

\* self.pending_transactions.is_empty()
QueueIsEmpty(queue) == queue = <<>>

\* Mutant of PreviousHash: the digest of the first block, not the last.
PreviousHash_First(chain) == Block_hash(chain[1])

\* self.blocks.last().unwrap().hash()
PreviousHash(chain) == Block_hash(chain[Len(chain)])

\* Mutant of NextHeight: one more than the chain length.
NextHeight_OffByOne(chain) == Len(chain) + 1

\* (self.blocks.len()) as u32
NextHeight(chain) == Len(chain)

\* Mutant of TakePending: only the first transaction is moved out.
TakePending_First(queue) ==
    [taken |-> SubSeq(queue, 1, 1), left |-> SubSeq(queue, 2, Len(queue))]

\* std::mem::take(&mut self.pending_transactions): the value moved out and
\* the value left behind.
TakePending(queue) == [taken |-> queue, left |-> <<>>]

\* Mutant of PushPending: the transaction is put at the head of the queue.
PushPending_Front(queue, tx) == <<tx>> \o queue

\* self.pending_transactions.push(transaction)
PushPending(queue, tx) == Append(queue, tx)

\* Mutant of PushBlock: the new block is put before the chain.
PushBlock_Front(chain, b) == <<b>> \o chain

\* self.blocks.push(new_block)
PushBlock(chain, b) == Append(chain, b)

\* Vec<String>::contains(&address.to_string())
Contains(list, address) == \E i \in 1..Len(list) : list[i] = address

\* Mutant of BalanceStep: the amount is subtracted before it is added.
BalanceStep_SubtractFirst(acc, tx, address) ==
    LET subtracted == IF Contains(tx.inputs, address)
                      THEN IF acc.balance >= tx.amount
                           THEN acc.balance - tx.amount ELSE 0
                      ELSE acc.balance
        added == IF Contains(tx.outputs, address)
                 THEN subtracted + tx.amount ELSE subtracted
    IN  [balance |-> added % (BalanceMax + 1),
         overflowed |-> acc.overflowed \/ added > BalanceMax]

\* The body of get_balance's inner loop for one transaction:
\* `balance += amount` at the width of a u64 (overflowed records that the
\* sum passed u64::MAX, the balance kept is the wrapped one), then
\* `balance = balance.saturating_sub(amount)`.
BalanceStep(acc, tx, address) ==
    LET added == IF Contains(tx.outputs, address)
                 THEN acc.balance + tx.amount ELSE acc.balance
        wrapped == added % (BalanceMax + 1)
        subtracted == IF Contains(tx.inputs, address)
                      THEN IF wrapped >= tx.amount THEN wrapped - tx.amount ELSE 0
                      ELSE wrapped
    IN  [balance |-> subtracted,
         overflowed |-> acc.overflowed \/ added > BalanceMax]

\* for transaction in &block.transactions
RECURSIVE BalanceOverTransactions(_, _, _, _)
BalanceOverTransactions(acc, transactions, address, j) ==
    IF j > Len(transactions) THEN acc
    ELSE BalanceOverTransactions(BalanceStep(acc, transactions[j], address),
                                 transactions, address, j + 1)

\* for block in &self.blocks
RECURSIVE BalanceOverBlocks(_, _, _, _)
BalanceOverBlocks(acc, chain, address, i) ==
    IF i > Len(chain) THEN acc
    ELSE BalanceOverBlocks(
             BalanceOverTransactions(acc, chain[i].transactions, address, 1),
             chain, address, i + 1)

\* Blockchain::get_balance: the balance computed without overflow checks,
\* and whether an addition overflowed on the way.
get_balance(chain, address) ==
    BalanceOverBlocks([balance |-> 0, overflowed |-> FALSE], chain, address, 1)

(***************************************************************************)
(* State                                                                   *)
(***************************************************************************)
VARIABLES
    blocks,                \* Blockchain.blocks
    pending_transactions,  \* Blockchain.pending_transactions
    difficulty_target,     \* Blockchain.miner.difficulty_target
    clock,                 \* SystemTime::now(), in seconds
    pc,                    \* "idle", or "searching" inside mine_block's loop
    block,                 \* mine_block's local candidate while searching
    op,                    \* the public operation called last
    result,                \* what it returned ("running" while it has not)
    pre,                   \* the ledger and the clock when it was called
    arg,                   \* its argument
    submitted,             \* every transaction passed to add_transaction, in order
    tampered               \* a block's previous_hash was overwritten from outside

vars == <<blocks, pending_transactions, difficulty_target, clock, pc, block,
          op, result, pre, arg, submitted, tampered>>

\* The transactions callers submit: tx_001 and tx_002 of
\* create_sample_transactions (addresses coded 1, 2, 3; amounts in units of
\* 10^8 satoshis).
TxPool ==
    {Transaction_new(1, <<GenesisAddress>>, <<2>>, 10),
     Transaction_new(2, <<GenesisAddress>>, <<3>>, 5)}

\* A difficulty no digest can meet: one more than the digest has bits.
UnreachableDifficulty == HashLen * 8 + 1

\* The difficulties handed to Blockchain::new.
Difficulties == (0..MaxDifficulty) \cup {UnreachableDifficulty}

\* The value of `block` outside mine_block.
NoBlock == Block_new(0, ZeroHash, <<>>, 0, 0, 0)

Snapshot == [len |-> Len(blocks), difficulty |-> difficulty_target,
             pending |-> pending_transactions, clock |-> clock]

\* Blockchain::new(difficulty)
Init ==
    /\ clock \in 0..MaxTime
    /\ difficulty_target \in Difficulties
    /\ blocks = <<genesis_block(clock)>>
    /\ pending_transactions = <<>>
    /\ pc = "idle"
    /\ block = NoBlock
    /\ op = "new"
    /\ result = "Ok"
    /\ pre = [len |-> 0, difficulty |-> difficulty_target, pending |-> <<>>,
              clock |-> clock]
    /\ arg = <<>>
    /\ submitted = <<>>
    /\ tampered = FALSE

\* The system clock advances.
Tick ==
    /\ clock < MaxTime
    /\ clock' = clock + 1
    /\ UNCHANGED <<blocks, pending_transactions, difficulty_target, pc, block,
                   op, result, pre, arg, submitted, tampered>>

\* Mutant of AddTransactionFrom: a transaction whose first input cannot cover
\* the amount is refused and the queue is left as it was.
AddTransactionFrom_Rejecting(pool) ==
    /\ pc = "idle"
    /\ ~tampered
    /\ Len(submitted) < MaxTx
    /\ \E tx \in pool :
        LET funded == get_balance(blocks, tx.inputs[1]).balance >= tx.amount
        IN  /\ pending_transactions' = IF funded
                                       THEN PushPending(pending_transactions, tx)
                                       ELSE pending_transactions
            /\ submitted' = IF funded THEN Append(submitted, tx) ELSE submitted
            /\ result' = IF funded THEN "Ok" ELSE "Err"
            /\ arg' = tx
    /\ op' = "add_transaction"
    /\ pre' = Snapshot
    /\ UNCHANGED <<blocks, difficulty_target, clock, pc, block, tampered>>

\* Blockchain::add_transaction(tx), tx drawn from pool
AddTransactionFrom(pool) ==
    /\ pc = "idle"
    /\ ~tampered
    /\ Len(submitted) < MaxTx
    /\ \E tx \in pool :
        /\ pending_transactions' = PushPending(pending_transactions, tx)
        /\ submitted' = Append(submitted, tx)
        /\ arg' = tx
    /\ op' = "add_transaction"
    /\ result' = "Ok"
    /\ pre' = Snapshot
    /\ UNCHANGED <<blocks, difficulty_target, clock, pc, block, tampered>>

AddTransaction == AddTransactionFrom(TxPool)

\* Blockchain::mine_pending_transactions with an empty queue: return Ok(()).
MineEmpty ==
    /\ pc = "idle"
    /\ ~tampered
    /\ QueueIsEmpty(pending_transactions)
    /\ op' = "mine_pending_transactions"
    /\ result' = "Ok"
    /\ pre' = Snapshot
    /\ arg' = <<>>
    /\ UNCHANGED <<blocks, pending_transactions, difficulty_target, clock, pc,
                   block, submitted, tampered>>

\* Blockchain::mine_pending_transactions with a non-empty queue, up to the
\* entry of mine_block's loop: the queue is taken and the candidate built.
MineStart ==
    /\ pc = "idle"
    /\ ~tampered
    /\ ~QueueIsEmpty(pending_transactions)
    /\ LET previous_hash == PreviousHash(blocks)
           height == NextHeight(blocks)
           moved == TakePending(pending_transactions)
       IN  /\ pending_transactions' = moved.left
           /\ block' = Block_new(MinedVersion, previous_hash, moved.taken,
                                 difficulty_target, height, clock)
    /\ pc' = "searching"
    /\ op' = "mine_pending_transactions"
    /\ result' = "running"
    /\ pre' = Snapshot
    /\ arg' = <<>>
    /\ UNCHANGED <<blocks, difficulty_target, clock, submitted, tampered>>

\* One iteration of mine_block's loop whose digest meets the target:
\* mine_block returns Ok(block) and the caller pushes it and returns Ok(()).
MineFound ==
    /\ pc = "searching"
    /\ meets_difficulty_target(difficulty_target, Block_hash(block))
    /\ blocks' = PushBlock(blocks, block)
    /\ block' = NoBlock
    /\ pc' = "idle"
    /\ result' = "Ok"
    /\ UNCHANGED <<pending_transactions, difficulty_target, clock, op, pre, arg,
                   submitted, tampered>>

\* Mutant of MineRetry: a search that fails at the largest nonce gives up
\* with MiningFailed.
MineRetry_GiveUp ==
    /\ pc = "searching"
    /\ ~meets_difficulty_target(difficulty_target, Block_hash(block))
    /\ IF block.header.nonce = NonceMax
       THEN /\ pc' = "idle"
            /\ result' = "MiningFailed"
            /\ block' = NoBlock
       ELSE /\ block' = NextCandidate(block, clock)
            /\ UNCHANGED <<pc, result>>
    /\ UNCHANGED <<blocks, pending_transactions, difficulty_target, clock,
                   op, pre, arg, submitted, tampered>>

\* One iteration of mine_block's loop whose digest misses the target.
MineRetry ==
    /\ pc = "searching"
    /\ ~meets_difficulty_target(difficulty_target, Block_hash(block))
    /\ block' = NextCandidate(block, clock)
    /\ UNCHANGED <<blocks, pending_transactions, difficulty_target, clock, pc,
                   op, result, pre, arg, submitted, tampered>>

\* Blockchain::validate_chain()
ValidateChain ==
    /\ pc = "idle"
    /\ op' = "validate_chain"
    /\ result' = validate_chain(blocks, difficulty_target)
    /\ pre' = Snapshot
    /\ arg' = <<>>
    /\ UNCHANGED <<blocks, pending_transactions, difficulty_target, clock, pc,
                   block, submitted, tampered>>

\* The arguments handed to adjust_difficulty.
AdjustTimes == 0..MaxAdjustTime

\* Miner::adjust_difficulty(actual_time, target_time), both times drawn from
\* times, the result fitting a u32.
AdjustDifficultyWith(times) ==
    /\ pc = "idle"
    /\ \E actual_time, target_time \in times :
        /\ adjust_difficulty(difficulty_target, actual_time, target_time) <= DifficultyMax
        /\ difficulty_target' = adjust_difficulty(difficulty_target, actual_time, target_time)
        /\ arg' = <<actual_time, target_time>>
    /\ op' = "adjust_difficulty"
    /\ result' = "Ok"
    /\ pre' = Snapshot
    /\ UNCHANGED <<blocks, pending_transactions, clock, pc, block, submitted,
                   tampered>>

AdjustDifficulty == AdjustDifficultyWith(AdjustTimes)

\* Miner::adjust_difficulty where `self.difficulty_target += 1` overflows:
\* a build with overflow checks panics, a build without them wraps to 0.
AdjustOverflow ==
    /\ pc = "idle"
    /\ \E actual_time, target_time \in AdjustTimes :
        /\ adjust_difficulty(difficulty_target, actual_time, target_time) > DifficultyMax
        /\ arg' = <<actual_time, target_time>>
    /\ op' = "adjust_difficulty"
    /\ pre' = Snapshot
    /\ \/ /\ difficulty_target' = 0
          /\ result' = "Ok"
          /\ pc' = pc
       \/ /\ difficulty_target' = difficulty_target
          /\ result' = "panic"
          /\ pc' = "panicked"
    /\ UNCHANGED <<blocks, pending_transactions, clock, block, submitted,
                   tampered>>

\* The positions of previous_hash an outside writer overwrites, and the
\* bytes it writes there.
TamperPositions == {1, HashLen}
TamperBytes(old) == {0, (old + 1) % 256} \ {old}

\* A write to the public field blocks[i].header.previous_hash of a
\* non-genesis block that changes its value.
Tamper ==
    /\ pc = "idle"
    /\ ~tampered
    /\ \E i \in 2..Len(blocks), k \in TamperPositions :
        \E v \in TamperBytes(blocks[i].header.previous_hash[k]) :
            /\ blocks' = [blocks EXCEPT ![i].header.previous_hash[k] = v]
            /\ arg' = <<i, k, v>>
    /\ tampered' = TRUE
    /\ op' = "tamper"
    /\ result' = "Ok"
    /\ pre' = Snapshot
    /\ UNCHANGED <<pending_transactions, difficulty_target, clock, pc, block,
                   submitted>>

\* The transactions callers submit where balances are queried: TxPool, a
\* transaction whose address 2 is both an input and an output, and one that
\* spends more than address 3 holds and pays address 1.
BalancePool ==
    TxPool \cup {Transaction_new(3, <<2>>, <<2>>, 7),
                 Transaction_new(4, <<3>>, <<GenesisAddress>>, 20)}

\* The addresses queried: the three of BalancePool and one no transaction
\* names.
Addresses == {GenesisAddress, 2, 3, 4}

AddTransactionBalance == AddTransactionFrom(BalancePool)

\* Blockchain::get_balance(address) where no addition overflows.
GetBalance ==
    /\ pc = "idle"
    /\ \E address \in Addresses :
        /\ ~get_balance(blocks, address).overflowed
        /\ result' = get_balance(blocks, address).balance
        /\ arg' = address
    /\ op' = "get_balance"
    /\ pre' = Snapshot
    /\ UNCHANGED <<blocks, pending_transactions, difficulty_target, clock, pc,
                   block, submitted, tampered>>

\* Blockchain::get_balance(address) where `balance += transaction.amount`
\* overflows: a build with overflow checks panics, a build without them
\* goes on with the wrapped sum.
GetBalanceOverflow ==
    /\ pc = "idle"
    /\ \E address \in Addresses :
        /\ get_balance(blocks, address).overflowed
        /\ arg' = address
        /\ \/ /\ result' = get_balance(blocks, address).balance
              /\ pc' = pc
           \/ /\ result' = "panic"
              /\ pc' = "panicked"
    /\ op' = "get_balance"
    /\ pre' = Snapshot
    /\ UNCHANGED <<blocks, pending_transactions, difficulty_target, clock,
                   block, submitted, tampered>>

Next ==
    \/ Tick
    \/ AddTransaction
    \/ MineEmpty
    \/ MineStart
    \/ MineFound
    \/ MineRetry
    \/ ValidateChain

Spec == Init /\ [][Next]_vars

\* The miner alone: a difficulty from Miner::new, then adjust_difficulty calls.
NextMiner ==
    \/ AdjustDifficulty
    \/ AdjustOverflow

SpecMiner == Init /\ [][NextMiner]_vars

\* The ledger with one outside write to a previous_hash.
NextTamper ==
    \/ Next
    \/ Tamper

SpecTamper == Init /\ [][NextTamper]_vars

\* The ledger with balance queries, the clock standing still.
NextBalance ==
    \/ AddTransactionBalance
    \/ MineStart
    \/ MineFound
    \/ MineRetry
    \/ GetBalance
    \/ GetBalanceOverflow

SpecBalance == Init /\ [][NextBalance]_vars

\* Miner::adjust_difficulty on the ledger's miner, between two operations of
\* the ledger, the difficulty staying among those the ledger starts from.
\* The times give a ratio below 0.5, one above 2.0 and one between.
LedgerAdjustTimes == {1, 3}
AdjustLedger ==
    /\ AdjustDifficultyWith(LedgerAdjustTimes)
    /\ ~tampered
    /\ difficulty_target' \in Difficulties

\* The ledger with its miner's difficulty adjusted between operations, the
\* clock standing still.
NextAdjust ==
    \/ AddTransaction
    \/ MineStart
    \/ MineFound
    \/ MineRetry
    \/ ValidateChain
    \/ AdjustLedger

SpecAdjust == Init /\ [][NextAdjust]_vars

\* Blockchain::add_transaction of a payment from the genesis address or of
\* one to it.
LedgerPool ==
    {Transaction_new(1, <<GenesisAddress>>, <<2>>, 10),
     Transaction_new(4, <<3>>, <<GenesisAddress>>, 20)}
AddTransactionLedger == AddTransactionFrom(LedgerPool)

\* Every public operation of the ledger and of its miner, the clock standing
\* still.
NextLedger ==
    \/ AddTransactionLedger
    \/ MineEmpty
    \/ MineStart
    \/ MineFound
    \/ MineRetry
    \/ ValidateChain
    \/ GetBalance
    \/ GetBalanceOverflow
    \/ AdjustLedger

SpecLedger == Init /\ [][NextLedger]_vars

(***************************************************************************)
(* Block::calculate_merkle_root on its own                                 *)
(***************************************************************************)
\* The transaction lists handed to calculate_merkle_root: every list of up
\* to MaxLeaves transactions, repetitions included.
RECURSIVE ListsUpTo(_, _)
ListsUpTo(pool, n) ==
    IF n = 0 THEN {<<>>}
    ELSE LET shorter == ListsUpTo(pool, n - 1)
         IN  shorter \cup {Append(l, tx) : l \in shorter, tx \in pool}

\* A transaction list has been chosen and nothing computed from it yet.
InitMerkle ==
    /\ arg \in ListsUpTo(TxPool, MaxLeaves)
    /\ clock = 0
    /\ difficulty_target = 0
    /\ blocks = <<>>
    /\ pending_transactions = <<>>
    /\ pc = "idle"
    /\ block = NoBlock
    /\ op = "input"
    /\ result = ZeroHash
    /\ pre = [len |-> 0, difficulty |-> 0, pending |-> <<>>, clock |-> 0]
    /\ submitted = <<>>
    /\ tampered = FALSE

\* Block::calculate_merkle_root(&transactions)
MerkleRoot ==
    /\ op = "input"
    /\ result' = calculate_merkle_root(arg)
    /\ op' = "calculate_merkle_root"
    /\ UNCHANGED <<blocks, pending_transactions, difficulty_target, clock, pc,
                   block, pre, arg, submitted, tampered>>

\* Block::new over the same list, which computes the root once more.
MerkleBlockNew ==
    /\ op = "calculate_merkle_root"
    /\ block' = Block_new(MinedVersion, ZeroHash, arg, difficulty_target,
                          Len(blocks), clock)
    /\ op' = "Block::new"
    /\ UNCHANGED <<blocks, pending_transactions, difficulty_target, clock, pc,
                   result, pre, arg, submitted, tampered>>

NextMerkle ==
    \/ MerkleRoot
    \/ MerkleBlockNew

SpecMerkle == InitMerkle /\ [][NextMerkle]_vars

(***************************************************************************)
(* Miner::count_leading_zero_bits on its own                               *)
(***************************************************************************)
\* The digests handed to count_leading_zero_bits: the all-zero digest and,
\* for every number of leading zero bytes, a first non-zero byte followed by
\* bytes that are all 0 or all 255.
LeadBytes == {1, 2, 3, 5, 8, 16, 32, 64, 127, 128, 129, 255}
FillBytes == {0, 255}
Digests ==
    {ZeroHash} \cup
    {[i \in 1..HashLen |-> IF i <= k THEN 0 ELSE IF i = k + 1 THEN b ELSE f] :
        k \in 0..(HashLen - 1), b \in LeadBytes, f \in FillBytes}

\* A digest has been chosen and nothing computed from it yet.
InitDigest ==
    /\ arg \in Digests
    /\ clock = 0
    /\ difficulty_target = 0
    /\ blocks = <<>>
    /\ pending_transactions = <<>>
    /\ pc = "idle"
    /\ block = NoBlock
    /\ op = "input"
    /\ result = 0
    /\ pre = [len |-> 0, difficulty |-> 0, pending |-> <<>>, clock |-> 0]
    /\ submitted = <<>>
    /\ tampered = FALSE

\* Miner::count_leading_zero_bits(&hash)
CountLeadingZeroBits ==
    /\ op = "input"
    /\ result' = count_leading_zero_bits(arg)
    /\ op' = "count_leading_zero_bits"
    /\ UNCHANGED <<blocks, pending_transactions, difficulty_target, clock, pc,
                   block, pre, arg, submitted, tampered>>

NextDigest == CountLeadingZeroBits

SpecDigest == InitDigest /\ [][NextDigest]_vars


(***************************************************************************)
(* Properties                                                              *)
(***************************************************************************)
Max(a, b) == IF a >= b THEN a ELSE b

\* The digest the search loop computes for candidate b at nonce n of b's
\* timestamp epoch.
HashAtNonce(b, n) == Block_hash([b EXCEPT !.header.nonce = n])

\* The transactions of chain[i..], in chain order.
RECURSIVE ChainTransactions(_, _)
ChainTransactions(chain, i) ==
    IF i > Len(chain) THEN <<>>
    ELSE chain[i].transactions \o ChainTransactions(chain, i + 1)

\* C1: every non-genesis block's previous_hash is the header digest of the
\* block before it.
ChainLinkage ==
    \A i \in 2..Len(blocks) :
        blocks[i].header.previous_hash = Block_hash(blocks[i - 1])

\* Two blocks were mined on top of the genesis block.
TwoBlocksMined == pc = "idle" /\ Len(blocks) = 3

\* C2: every block of the chain, the genesis block included, has a header
\* digest with at least header.difficulty_target leading zero bits.
ProofOfWorkEveryBlock ==
    \A i \in 1..Len(blocks) :
        count_leading_zero_bits(Block_hash(blocks[i]))
            >= blocks[i].header.difficulty_target

\* C3: a mine_pending_transactions call entered with a non-empty queue that
\* has returned appended exactly one block, returned Ok and left the queue
\* empty.
MineAppendsOneBlock ==
    (op = "mine_pending_transactions" /\ pre.pending # <<>> /\ result # "running")
        => /\ pc = "idle"
           /\ result = "Ok"
           /\ Len(blocks) = pre.len + 1
           /\ pending_transactions = <<>>

\* A call entered with two queued transactions has returned.
MinedTwoQueued ==
    /\ op = "mine_pending_transactions"
    /\ Len(pre.pending) = 2
    /\ result = "Ok"
    /\ Len(blocks) = pre.len + 1

\* C4: with the difficulty left as constructed and no field overwritten,
\* validate_chain returns true between calls, on the genesis-only chain too.
HonestChainValidates ==
    /\ pc = "idle" => validate_chain(blocks, difficulty_target)
    /\ op = "validate_chain" => result = TRUE

\* validate_chain was called on a chain with two mined blocks.
ValidatedTwoMined == op = "validate_chain" /\ result = TRUE /\ Len(blocks) = 3

\* C5: once the previous_hash of a non-genesis block of an honest chain has
\* been changed, validate_chain returns false.
TamperDetected ==
    /\ (tampered /\ pc = "idle") => ~validate_chain(blocks, difficulty_target)
    /\ (tampered /\ op = "validate_chain") => result = FALSE

\* validate_chain was called after the last block's previous_hash, in a
\* chain of three, was overwritten and its digest still meets the target.
TamperedLastValidated ==
    /\ tampered
    /\ op = "validate_chain"
    /\ result = FALSE
    /\ Len(blocks) = 3
    /\ blocks[3].header.previous_hash # Block_hash(blocks[2])
    /\ validate_block(difficulty_target, blocks[3])

\* C6: between calls, the transactions of the mined blocks in chain order
\* followed by the queue are the submitted transactions in call order; a
\* candidate holds the whole queue as it was at the call.
TransactionsConserved ==
    /\ pc = "idle"
        => ChainTransactions(blocks, 2) \o pending_transactions = submitted
    /\ pc = "searching"
        => /\ block.transactions = pre.pending
           /\ ChainTransactions(blocks, 2) \o block.transactions = submitted

\* Two different transactions were submitted, the first is mined and the
\* second is queued.
MinedThenQueued ==
    /\ pc = "idle"
    /\ Len(blocks) = 2
    /\ Len(pending_transactions) = 1
    /\ blocks[2].transactions # pending_transactions

\* C7: a mine_pending_transactions call with an empty queue returns Ok,
\* starts no search and changes neither blocks, the queue nor the difficulty.
MineEmptyNoEffect ==
    [][(pc = "idle" /\ pending_transactions = <<>>
            /\ op' = "mine_pending_transactions")
        => /\ blocks' = blocks
           /\ pending_transactions' = pending_transactions
           /\ difficulty_target' = difficulty_target
           /\ pc' = "idle"
           /\ block' = block
           /\ result' = "Ok"]_vars

\* A call with an empty queue has returned on a chain with a mined block.
MinedEmptyQueue ==
    /\ op = "mine_pending_transactions"
    /\ pre.pending = <<>>
    /\ result = "Ok"
    /\ Len(blocks) = 2
    /\ pre.len = 2

\* C8: blocks is never empty, block i has height i (from 0), block 0 is the
\* genesis block with an all-zero previous_hash, and it is never replaced.
HeightsAndGenesis ==
    /\ [](/\ Len(blocks) >= 1
          /\ \A i \in 1..Len(blocks) : blocks[i].height = i - 1
          /\ blocks[1] = genesis_block(blocks[1].header.timestamp)
          /\ blocks[1].height = 0
          /\ blocks[1].header.previous_hash = ZeroHash)
    /\ [][blocks'[1] = blocks[1]]_vars

\* The chain holds the genesis block and two mined blocks.
ThreeHeights == Len(blocks) = 3 /\ blocks[3].height = 2

\* C9: within a timestamp epoch the search goes from nonce n to n + 1, so
\* a mined block's digest meets the target at its nonce n and timestamp t
\* and no smaller nonce meets it at t, and the candidate of a running search
\* has failed at every nonce below its own in its epoch.
FirstSatisfyingNonce ==
    /\ [](/\ \A i \in 2..Len(blocks) :
              /\ meets_difficulty_target(blocks[i].header.difficulty_target,
                                         Block_hash(blocks[i]))
              /\ \A m \in 0..(blocks[i].header.nonce - 1) :
                  ~meets_difficulty_target(blocks[i].header.difficulty_target,
                                           HashAtNonce(blocks[i], m))
          /\ pc = "searching"
              => \A m \in 0..(block.header.nonce - 1) :
                  ~meets_difficulty_target(difficulty_target,
                                           HashAtNonce(block, m)))
    /\ [][(pc = "searching" /\ pc' = "searching" /\ block' # block)
            => \/ /\ block'.header.nonce = block.header.nonce + 1
                  /\ block'.header.timestamp = block.header.timestamp
               \/ /\ block.header.nonce = NonceMax
                  /\ block'.header.nonce = 0]_vars

\* The last call mined its block at a nonce above 0 in an epoch begun by a
\* timestamp refresh: the block's timestamp is later than the clock was when
\* the candidate was built.
MinedAfterRefresh ==
    /\ op = "mine_pending_transactions"
    /\ result = "Ok"
    /\ pre.pending # <<>>
    /\ blocks[Len(blocks)].header.nonce > 0
    /\ blocks[Len(blocks)].header.timestamp > pre.clock

\* The adjust_difficulty call made last had a ratio above 2.0 with a
\* positive target_time.
DecreaseCall ==
    /\ op = "adjust_difficulty"
    /\ result = "Ok"
    /\ arg[2] > 0
    /\ arg[1] > 2 * arg[2]

\* C10 as stated: after a call with ratio above 2.0 the difficulty is
\* max(d - 1, 1) for every prior d, 0 included, and so never below 1.
DecreaseFlooredAtOne ==
    DecreaseCall
        => /\ difficulty_target = Max(pre.difficulty - 1, 1)
           /\ difficulty_target >= 1

\* C10 as amended: after a call with ratio above 2.0 the difficulty is
\* max(d - 1, 1) for every prior d >= 1, and a prior difficulty of 0 stays 0.
DecreaseFlooredAtOneFromOne ==
    DecreaseCall
        => /\ pre.difficulty >= 1
               => /\ difficulty_target = Max(pre.difficulty - 1, 1)
                  /\ difficulty_target >= 1
           /\ pre.difficulty = 0 => difficulty_target = 0

\* A decrease call found the difficulty at 1 and left it there.
DecreaseAtFloor ==
    DecreaseCall /\ pre.difficulty = 1 /\ difficulty_target = 1

\* The left fold of C11 over transactions[i..], in the integers: add the
\* amount if the address is an output, then subtract it, stopping at 0, if
\* the address is an input.  peak is the largest sum reached.
RECURSIVE FoldBalance(_, _, _, _)
FoldBalance(acc, transactions, address, i) ==
    IF i > Len(transactions) THEN acc
    ELSE LET tx == transactions[i]
             added == IF \E k \in 1..Len(tx.outputs) : tx.outputs[k] = address
                      THEN acc.balance + tx.amount ELSE acc.balance
             subtracted == IF \E k \in 1..Len(tx.inputs) : tx.inputs[k] = address
                           THEN Max(added - tx.amount, 0) ELSE added
         IN  FoldBalance([balance |-> subtracted, peak |-> Max(acc.peak, added)],
                         transactions, address, i + 1)

\* The fold over every transaction of every block, the genesis block's too.
ChainFold(address) ==
    FoldBalance([balance |-> 0, peak |-> 0], ChainTransactions(blocks, 1), address, 1)

\* The same fold with every sum taken modulo 2^64 (here BalanceMax + 1).
RECURSIVE FoldBalanceWrapping(_, _, _, _)
FoldBalanceWrapping(balance, transactions, address, i) ==
    IF i > Len(transactions) THEN balance
    ELSE LET tx == transactions[i]
             added == IF \E k \in 1..Len(tx.outputs) : tx.outputs[k] = address
                      THEN (balance + tx.amount) % (BalanceMax + 1) ELSE balance
             subtracted == IF \E k \in 1..Len(tx.inputs) : tx.inputs[k] = address
                           THEN Max(added - tx.amount, 0) ELSE added
         IN  FoldBalanceWrapping(subtracted, transactions, address, i + 1)

\* C11 as stated: get_balance returns the fold over the chain's
\* transactions, a value that is never negative.
BalanceIsFold ==
    op = "get_balance"
        => /\ pc # "panicked"
           /\ result = ChainFold(arg).balance
           /\ result >= 0

\* C11 short of overflow: get_balance returns the fold whenever no sum on the
\* way exceeds u64::MAX; when one does the call panics or returns the fold
\* with its sums wrapped.  The call changes neither blocks nor the queue.
BalanceIsFoldWithinU64 ==
    /\ [](op = "get_balance"
            => IF ChainFold(arg).peak <= BalanceMax
               THEN /\ pc # "panicked"
                    /\ result = ChainFold(arg).balance
                    /\ result >= 0
               ELSE \/ pc = "panicked"
                    \/ result = FoldBalanceWrapping(0, ChainTransactions(blocks, 1),
                                                    arg, 1))
    /\ [][op' = "get_balance"
            => /\ blocks' = blocks
               /\ pending_transactions' = pending_transactions]_vars

\* The balance of address 3 was queried after it received 5 and then spent
\* 20: the subtraction stopped at 0.
BalanceSaturated ==
    /\ op = "get_balance"
    /\ pc = "idle"
    /\ arg = 3
    /\ result = 0
    /\ Len(submitted) = 2
    /\ submitted[1].amount = 5
    /\ submitted[2].amount = 20
    /\ pending_transactions = <<>>

\* C12: add_transaction(tx) puts tx at the tail of the pending queue, one
\* longer than before, refuses no transaction, and leaves blocks and the
\* miner's difficulty_target as they were.
AddTransactionAppends ==
    /\ [](op = "add_transaction"
            => /\ result = "Ok"
               /\ pending_transactions = pre.pending \o <<arg>>
               /\ Len(pending_transactions) = Len(pre.pending) + 1
               /\ Len(blocks) = pre.len
               /\ difficulty_target = pre.difficulty)
    /\ [][op' = "add_transaction"
            => /\ blocks' = blocks
               /\ difficulty_target' = difficulty_target
               /\ pending_transactions' = pending_transactions \o <<arg'>>]_vars

\* A transaction spending 20 from address 3, which holds nothing, was queued
\* behind another one.
UnfundedQueued ==
    /\ op = "add_transaction"
    /\ Len(pending_transactions) = 2
    /\ arg = pending_transactions[2]
    /\ arg.inputs = <<3>>
    /\ arg.amount = 20
    /\ get_balance(blocks, 3).balance = 0

\* The adjust_difficulty call made last had a positive target_time and a
\* ratio below 0.5.
IncreaseCall ==
    /\ op = "adjust_difficulty"
    /\ arg[2] > 0
    /\ 2 * arg[1] < arg[2]

\* The adjust_difficulty call made last had a positive target_time and a
\* ratio from 0.5 to 2.0.
NoChangeCall ==
    /\ op = "adjust_difficulty"
    /\ arg[2] > 0
    /\ 2 * arg[1] >= arg[2]
    /\ arg[1] <= 2 * arg[2]

\* C13: a call with ratio below 0.5 makes the difficulty d + 1 for every
\* prior d, the maximum u32 value included; a call with ratio from 0.5 to
\* 2.0 leaves the difficulty as it was.
IncreaseByOneUnbounded ==
    /\ IncreaseCall
        => /\ pc # "panicked"
           /\ difficulty_target = pre.difficulty + 1
    /\ NoChangeCall
        => /\ pc # "panicked"
           /\ difficulty_target = pre.difficulty

\* C13 short of overflow: the same for every prior d below the maximum u32
\* value; at the maximum the increase panics or wraps to 0.
IncreaseByOneBelowMax ==
    /\ IncreaseCall
        => IF pre.difficulty < DifficultyMax
           THEN pc # "panicked" /\ difficulty_target = pre.difficulty + 1
           ELSE pc = "panicked" \/ difficulty_target = 0
    /\ NoChangeCall
        => /\ pc # "panicked"
           /\ difficulty_target = pre.difficulty

\* An increase call found the difficulty at the maximum u32 value.
IncreaseAtMax ==
    IncreaseCall /\ pre.difficulty = DifficultyMax

\* C14: with difficulty_target = 0 mine_block returns its first candidate:
\* the search leaves the candidate as built and the mined block has nonce 0
\* and the timestamp of its construction.
ZeroDifficultyFirstCandidate ==
    /\ [](/\ \A i \in 2..Len(blocks) :
              blocks[i].header.difficulty_target = 0
                  => blocks[i].header.nonce = 0
          /\ (pc = "searching" /\ difficulty_target = 0)
              => /\ block.header.nonce = 0
                 /\ block.header.timestamp = pre.clock
          /\ (/\ op = "mine_pending_transactions"
              /\ result = "Ok"
              /\ pre.pending # <<>>
              /\ pre.difficulty = 0)
              => /\ blocks[Len(blocks)].header.nonce = 0
                 /\ blocks[Len(blocks)].header.timestamp = pre.clock)
    /\ [][(pc = "searching" /\ difficulty_target = 0 /\ block' # block)
            => /\ pc' = "idle"
               /\ blocks' = Append(blocks, block)]_vars

\* Two blocks with different transaction lists, previous hashes and heights
\* were mined at difficulty 0, the second after the clock had moved.
ZeroDifficultyTwoMined ==
    /\ difficulty_target = 0
    /\ pc = "idle"
    /\ Len(blocks) = 3
    /\ blocks[2].transactions # blocks[3].transactions
    /\ blocks[3].header.timestamp > blocks[2].header.timestamp
    /\ op = "mine_pending_transactions"

\* The tree hash of C15 over a non-empty level: pairs (L, R) become
\* digest(L || R), the last element of an odd level pairs with itself, and
\* the levels are taken until one digest remains.
RECURSIVE TreeHash(_)
TreeHash(level) ==
    IF Len(level) = 1 THEN level[1]
    ELSE TreeHash([k \in 1..((Len(level) + 1) \div 2) |->
                      LET left == level[2 * k - 1]
                          right == IF 2 * k <= Len(level) THEN level[2 * k] ELSE left
                      IN  Sha256(left \o right)])

\* C15: calculate_merkle_root gives the all-zero value for the empty list
\* and otherwise the tree hash over the transactions' digests in list order,
\* so a single transaction's own digest for a list of one; computing it
\* again gives the same value.
MerkleRootIsTreeHash ==
    /\ op \in {"calculate_merkle_root", "Block::new"}
        => /\ arg = <<>> => result = [i \in 1..HashLen |-> 0]
           /\ arg # <<>>
               => result = TreeHash([i \in 1..Len(arg) |-> Transaction_hash(arg[i])])
           /\ Len(arg) = 1 => result = Transaction_hash(arg[1])
    /\ op = "Block::new" => block.header.merkle_root = result

\* The root of five transactions was computed, a list whose first and second
\* levels are both odd, and recomputed by Block::new.
MerkleRootOfFive ==
    /\ op = "Block::new"
    /\ Len(arg) = 5
    /\ arg[4] # arg[5]
    /\ block.transactions = arg

\* Bit j (1 the most significant) of a digest read as a big-endian bit
\* string.
DigestBit(digest, j) ==
    (digest[((j - 1) \div 8) + 1] \div (2 ^ (7 - ((j - 1) % 8)))) % 2

\* The number of most-significant zero bits of a digest.
LeadingZeroBits(digest) ==
    CHOOSE n \in 0..(8 * Len(digest)) :
        /\ \A j \in 1..n : DigestBit(digest, j) = 0
        /\ n < 8 * Len(digest) => DigestBit(digest, n + 1) = 1

\* The number of leading all-zero bytes of a digest.
LeadingZeroBytes(digest) ==
    CHOOSE k \in 0..Len(digest) :
        /\ \A i \in 1..k : digest[i] = 0
        /\ k < Len(digest) => digest[k + 1] # 0

\* C16: count_leading_zero_bits is the number of most-significant zero bits
\* of the digest: 8 per leading all-zero byte plus the leading-zero count,
\* from 0 to 7, of the first non-zero byte, whatever the later bytes; 256 for
\* the all-zero digest, 16 for one beginning 0x00 0x00 0x80 and 0 for one
\* beginning 0x80.
LeadingZeroBitsCounted ==
    op = "count_leading_zero_bits"
        => /\ result = LeadingZeroBits(arg)
           /\ LET k == LeadingZeroBytes(arg)
              IN  IF k = HashLen THEN result = 8 * HashLen
                  ELSE \E z \in 0..7 :
                          /\ result = 8 * k + z
                          /\ 2 ^ (7 - z) <= arg[k + 1]
                          /\ arg[k + 1] < 2 ^ (8 - z)
           /\ arg = [i \in 1..HashLen |-> 0] => result = 256
           /\ (arg[1] = 0 /\ arg[2] = 0 /\ arg[3] = 128) => result = 16
           /\ arg[1] = 128 => result = 0

\* The bits of a digest beginning 0x00 0x00 0x80 and going on with zero
\* bytes were counted.
CountedSixteen ==
    /\ op = "count_leading_zero_bits"
    /\ arg[1] = 0
    /\ arg[2] = 0
    /\ arg[3] = 128
    /\ arg[4] = 0
    /\ result = 16

\* C17: whatever add_transaction, mine_pending_transactions and
\* adjust_difficulty calls were made, validate_block is true of every mined
\* block and validate_chain returns true.
AdjustKeepsChainValid ==
    /\ pc = "idle"
        => \A i \in 2..Len(blocks) : validate_block(difficulty_target, blocks[i])
    /\ op = "validate_chain" => result = TRUE

\* Every mined block meets the difficulty_target written in its own header,
\* the one the miner had when the block was searched for.
MinedMeetsOwnTarget ==
    \A i \in 2..Len(blocks) :
        meets_difficulty_target(blocks[i].header.difficulty_target,
                                Block_hash(blocks[i]))

\* C18: a failing candidate at the largest nonce is followed by one with
\* nonce 0 and the current time as timestamp, and the search goes on; any
\* other failing candidate is followed by one with the nonce one higher and
\* the same timestamp; the nonce never exceeds its maximum.
NonceOverflowRefreshes ==
    /\ [](pc = "searching" => block.header.nonce \in 0..NonceMax)
    /\ [][(/\ pc = "searching"
           /\ ~meets_difficulty_target(difficulty_target, Block_hash(block)))
            => pc' = "searching"]_vars
    /\ [][(pc = "searching" /\ block' # block)
            => \/ meets_difficulty_target(difficulty_target, Block_hash(block))
               \/ IF block.header.nonce = NonceMax
                  THEN /\ block'.header.nonce = 0
                       /\ block'.header.timestamp = clock
                  ELSE /\ block'.header.nonce = block.header.nonce + 1
                       /\ block'.header.timestamp = block.header.timestamp]_vars

\* A search for a reachable target went past the largest nonce and now
\* stands at nonce 0 with a timestamp later than the one of construction.
NonceRestarted ==
    /\ pc = "searching"
    /\ difficulty_target <= MaxDifficulty
    /\ block.header.nonce = 0
    /\ block.header.timestamp > pre.clock

\* C19: the search ends only by returning Ok with a block whose digest meets
\* the target, never with MiningFailed or InvalidBlock; with a
\* difficulty_target above 256 a search once begun stays in progress and no
\* block is ever appended.
SearchHasNoFailureExit ==
    /\ [](/\ op = "mine_pending_transactions" => result \in {"Ok", "running"}
          /\ pc \in {"idle", "searching"}
          /\ difficulty_target > 8 * HashLen => Len(blocks) = 1)
    /\ [][(pc = "searching" /\ pc' # "searching")
            => /\ pc' = "idle"
               /\ result' = "Ok"
               /\ meets_difficulty_target(difficulty_target, Block_hash(block))
               /\ blocks' = Append(blocks, block)]_vars
    /\ [][(pc = "searching" /\ difficulty_target > 8 * HashLen)
            => /\ pc' = "searching"
               /\ blocks' = blocks]_vars

\* A search for a target of 257 bits has tried every nonce of one timestamp
\* and every nonce of the next, and is still in progress.
UnreachableStillSearching ==
    /\ difficulty_target = 8 * HashLen + 1
    /\ pc = "searching"
    /\ result = "running"
    /\ block.header.timestamp > pre.clock
    /\ block.header.nonce = NonceMax
    /\ Len(blocks) = 1

\* C20: from construction to return only the nonce and the timestamp of the
\* candidate change: version, previous_hash, merkle_root, difficulty_target,
\* transactions and height stay as Block::new set them, the merkle_root
\* being that of the transaction list and the difficulty_target the miner's
\* at the call.
SearchChangesNonceAndTimestampOnly ==
    /\ [](pc = "searching"
            => /\ block.header.version = MinedVersion
               /\ block.header.previous_hash = Block_hash(blocks[Len(blocks)])
               /\ block.header.merkle_root = calculate_merkle_root(pre.pending)
               /\ block.header.difficulty_target = pre.difficulty
               /\ block.transactions = pre.pending
               /\ block.height = pre.len)
    /\ [][(pc = "searching" /\ pc' = "searching")
            => block' = [block EXCEPT !.header.nonce = block'.header.nonce,
                                      !.header.timestamp = block'.header.timestamp]]_vars
    /\ [][(pc = "searching" /\ pc' = "idle")
            => blocks'[Len(blocks')] = block]_vars

\* A block was returned after a timestamp refresh, its timestamp later than
\* at construction and its other fields as Block::new set them.
ReturnedAsBuiltAfterRefresh ==
    /\ op = "mine_pending_transactions"
    /\ result = "Ok"
    /\ pre.pending # <<>>
    /\ blocks[Len(blocks)].header.timestamp > pre.clock
    /\ blocks[Len(blocks)].transactions = pre.pending
    /\ blocks[Len(blocks)].header.merkle_root = calculate_merkle_root(pre.pending)
    /\ blocks[Len(blocks)].header.difficulty_target = pre.difficulty
    /\ blocks[Len(blocks)].header.version = MinedVersion
    /\ blocks[Len(blocks)].height = pre.len

\* C21: no operation removes, reorders or modifies a block of the chain:
\* at every step the chain before is a prefix of the chain after, so its
\* length never decreases, and every operation but a successful
\* mine_pending_transactions leaves the chain as it was.
LedgerAppendOnly ==
    /\ [][/\ Len(blocks') >= Len(blocks)
          /\ \A i \in 1..Len(blocks) : blocks'[i] = blocks[i]]_vars
    /\ [][op' \in {"add_transaction", "validate_chain", "get_balance",
                   "adjust_difficulty"}
            => blocks' = blocks]_vars
    /\ [][blocks' # blocks
            => /\ op = "mine_pending_transactions"
               /\ Len(blocks') = Len(blocks) + 1]_vars

\* Two blocks were mined under different difficulties, and a balance was
\* queried on the chain of three.
GrownUnderAdjustment ==
    /\ Len(blocks) = 3
    /\ blocks[2].header.difficulty_target # blocks[3].header.difficulty_target
    /\ op = "get_balance"
    /\ pc = "idle"

====
